---- MODULE Spec2Model ----
(***************************************************************************)
(* PCHOL counter bot (bot.py): the three tables of class Database          *)
(* (messages = Tally Ledger, bee_count = Aggregate Store,                  *)
(* global_frozen_users = Exclusion Registry), the Database helper methods  *)
(* as operators on table values, and the message-created / message-edited  *)
(* handlers and the freeze confirmation that drive them.                   *)
(*                                                                         *)
(* bot.py ends inside on_confirm (line 463); the counting handlers for new *)
(* and edited messages are not part of the file.  OnMessageCreated,        *)
(* OnMessageEdited and the body of on_confirm follow spec.md 4.1-4.3 and   *)
(* call the Database helpers of bot.py, one helper call per store          *)
(* operation.                                                              *)
(***************************************************************************)
EXTENDS Integers, Sequences, FiniteSets, TLC

\* ---------------------------------------------------------------- bounds
MaxBees == 1        \* longest run of the symbol in a message text
MaxEvents == 3      \* created/edited events handled in one behaviour
MaxConnects == 2    \* restarts of the bot (runs of Database.connect) in one behaviour

\* ------------------------------------------------------------- constants
OWNER_ID == 1       \* int(os.getenv("OWNER_ID")); 0 is refused at start-up
TopLimit == 10      \* LIMIT 10 of get_top10
None == -1          \* Python None where an int is expected (counts are >= 0)
NoUser == 0         \* message.from_user is None / user_id NULL
Null == "NULL"      \* SQL NULL / Python None in a text column
BEE == "B"          \* the counted symbol
Other == "x"        \* any other character

\* Two chats and two users, the owner one of them.  A behaviour handles events either
\* for two messages of chat 1 (Spec) or for one message in each chat (SpecChats).
Chats == {1, 2}
Users == {1, 2}
KeysOneChat == {<<1, 1>>, <<1, 2>>}
KeysTwoChats == {<<1, 1>>, <<2, 1>>}
Keys == KeysOneChat \cup KeysTwoChats

\* message.from_user.username / chat.username: user 1 has a public username, user 2 none.
UsernameOf(user_id) == IF user_id = 1 THEN "name" ELSE Null

\* ------------------------------------------------------------- content
Run(ch, n) == [i \in 1..n |-> ch]

\* Telegram messages carry either a text, or a caption (media), or a sticker.
Contents ==
    {[text |-> Run(BEE, n), caption |-> <<>>, sticker |-> <<>>] : n \in 0..MaxBees}
    \cup {[text |-> <<>>, caption |-> <<Other, BEE>>, sticker |-> <<>>],
          [text |-> <<>>, caption |-> <<>>, sticker |-> <<BEE>>]}

\* Content of the messages that carry no from_user (service and channel messages).
SystemContents == {[text |-> <<BEE>>, caption |-> <<>>, sticker |-> <<>>]}

RECURSIVE CountOf(_, _)
CountOf(s, ch) ==
    IF s = <<>> THEN 0
    ELSE (IF Head(s) = ch THEN 1 ELSE 0) + CountOf(Tail(s), ch)

count_bees_in_message(msg) ==
    LET t1 == IF msg.text # <<>> THEN msg.text ELSE <<>>
        t2 == IF msg.caption # <<>> THEN t1 \o <<" ">> \o msg.caption ELSE t1
        t3 == IF msg.sticker # <<>> THEN t2 \o <<" ">> \o msg.sticker ELSE t2
    IN CountOf(t3, BEE)

\* ------------------------------------------------------------ table helpers
Put(tbl, key, row) ==
    [k \in DOMAIN tbl \cup {key} |-> IF k = key THEN row ELSE tbl[k]]

Del(tbl, key) == [k \in DOMAIN tbl \ {key} |-> tbl[k]]

EmptyTable == [k \in {} |-> 0]

RECURSIVE SumOver(_, _)
SumOver(f, S) ==
    IF S = {} THEN 0
    ELSE LET x == CHOOSE y \in S : TRUE IN f[x] + SumOver(f, S \ {x})

\* ------------------------------------------------ Database: messages table
\* Faults of get_message_bees: a lookup that never finds the row; a lookup that
\* answers 0 instead of None for a missing row.
get_message_bees_never_finds(msgs, chat_id, message_id) == None

get_message_bees_zero_default(msgs, chat_id, message_id) ==
    IF <<chat_id, message_id>> \in DOMAIN msgs
    THEN msgs[<<chat_id, message_id>>].bees_count
    ELSE 0

get_message_bees(msgs, chat_id, message_id) ==
    IF <<chat_id, message_id>> \in DOMAIN msgs
    THEN msgs[<<chat_id, message_id>>].bees_count
    ELSE None

\* Fault of insert_message: messages without the symbol are not stored.
insert_message_skip_zero(msgs, chat_id, message_id, user_id, bees) ==
    IF bees = 0 \/ <<chat_id, message_id>> \in DOMAIN msgs
    THEN msgs
    ELSE Put(msgs, <<chat_id, message_id>>, [user_id |-> user_id, bees_count |-> bees])

insert_message(msgs, chat_id, message_id, user_id, bees) ==
    IF <<chat_id, message_id>> \in DOMAIN msgs
    THEN msgs
    ELSE Put(msgs, <<chat_id, message_id>>, [user_id |-> user_id, bees_count |-> bees])

\* Fault of update_message_bees: SET bees_count = bees_count + $1.
update_message_bees_adds(msgs, chat_id, message_id, new_bees) ==
    [k \in DOMAIN msgs |->
        IF k = <<chat_id, message_id>>
        THEN [msgs[k] EXCEPT !.bees_count = @ + new_bees]
        ELSE msgs[k]]

update_message_bees(msgs, chat_id, message_id, new_bees) ==
    [k \in DOMAIN msgs |->
        IF k = <<chat_id, message_id>>
        THEN [msgs[k] EXCEPT !.bees_count = new_bees]
        ELSE msgs[k]]

\* ----------------------------------------------- Database: bee_count table
\* Faults of add_user_bees: SET count = $4 (overwrite instead of add); a conflict
\* target without chat_id, so that the user's rows of every chat are updated.
add_user_bees_overwrite(bc, chat_id, user_id, username, delta) ==
    IF delta = 0 THEN bc
    ELSE Put(bc, <<chat_id, user_id>>,
             [username |-> IF username = Null /\ <<chat_id, user_id>> \in DOMAIN bc
                           THEN bc[<<chat_id, user_id>>].username ELSE username,
              count |-> delta])

add_user_bees_all_chats(bc, chat_id, user_id, username, delta) ==
    IF delta = 0 THEN bc
    ELSE IF \E k \in DOMAIN bc : k[2] = user_id
    THEN [k \in DOMAIN bc |->
            IF k[2] = user_id
            THEN [count |-> bc[k].count + delta,
                  username |-> IF username # Null THEN username ELSE bc[k].username]
            ELSE bc[k]]
    ELSE Put(bc, <<chat_id, user_id>>, [username |-> username, count |-> delta])

add_user_bees(bc, chat_id, user_id, username, delta) ==
    IF delta = 0 THEN bc
    ELSE IF <<chat_id, user_id>> \in DOMAIN bc
    THEN [bc EXCEPT ![<<chat_id, user_id>>] =
            [count |-> @.count + delta,
             username |-> IF username # Null THEN username ELSE @.username]]
    ELSE Put(bc, <<chat_id, user_id>>, [username |-> username, count |-> delta])

\* Fault of adjust_user_bees: SET count = $3 (overwrite instead of add).
adjust_user_bees_overwrite(bc, chat_id, user_id, delta) ==
    IF delta = 0 THEN bc
    ELSE IF <<chat_id, user_id>> \in DOMAIN bc
    THEN [bc EXCEPT ![<<chat_id, user_id>>].count = delta]
    ELSE Put(bc, <<chat_id, user_id>>, [username |-> Null, count |-> delta])

adjust_user_bees(bc, chat_id, user_id, delta) ==
    IF delta = 0 THEN bc
    ELSE IF <<chat_id, user_id>> \in DOMAIN bc
    THEN [bc EXCEPT ![<<chat_id, user_id>>].count = @ + delta]
    ELSE Put(bc, <<chat_id, user_id>>, [username |-> Null, count |-> delta])

get_total(bc, chat_id) ==
    LET rows == {k \in DOMAIN bc : k[1] = chat_id}
    IN SumOver([k \in rows |-> bc[k].count], rows)

\* Fault of get_user_count: None instead of 0 when the user has no row.
get_user_count_none(bc, chat_id, user_id) ==
    IF <<chat_id, user_id>> \in DOMAIN bc THEN bc[<<chat_id, user_id>>].count ELSE None

get_user_count(bc, chat_id, user_id) ==
    IF <<chat_id, user_id>> \in DOMAIN bc THEN bc[<<chat_id, user_id>>].count ELSE 0

\* ORDER BY count DESC LIMIT 10: SQL leaves the order of equal counts open, so the
\* result is any one of the sequences that are sorted by count and keep the largest rows.
get_top10(bc, chat_id) ==
    LET rows == {[user_id |-> k[2], username |-> bc[k].username, count |-> bc[k].count] :
                    k \in {q \in DOMAIN bc : q[1] = chat_id}}
        n == IF Cardinality(rows) < TopLimit THEN Cardinality(rows) ELSE TopLimit
    IN {s \in [1..n -> rows] :
            /\ \A i, j \in 1..n : i < j => (s[i] # s[j] /\ s[i].count >= s[j].count)
            /\ \A r \in rows \ {s[i] : i \in 1..n} : \A i \in 1..n : s[i].count >= r.count}

\* ------------------------------------------------- Database: migration
\* SELECT chat_id, user_id, SUM(bees_count) ... WHERE user_id IS NOT NULL GROUP BY ...
migration_groups(msgs) ==
    {<<k[1], msgs[k].user_id>> : k \in {q \in DOMAIN msgs : msgs[q].user_id # NoUser}}

migration_sum(msgs, g) ==
    LET ks == {k \in DOMAIN msgs : k[1] = g[1] /\ msgs[k].user_id = g[2]}
    IN SumOver([k \in ks |-> msgs[k].bees_count], ks)

\* for r in rows: INSERT ... ON CONFLICT (chat_id, user_id) DO UPDATE SET count = count + s
RECURSIVE migration_insert(_, _, _)
migration_insert(bc, msgs, groups) ==
    IF groups = {} THEN bc
    ELSE LET g == CHOOSE x \in groups : TRUE
             sum == migration_sum(msgs, g)
             bc2 == IF g \in DOMAIN bc
                    THEN [bc EXCEPT ![g].count = @ + sum]
                    ELSE Put(bc, g, [username |-> Null, count |-> sum])
         IN migration_insert(bc2, msgs, groups \ {g})

\* Fault of the migration: bee_count is not checked for being empty.
migrate_if_needed_always(msgs, bc) ==
    IF DOMAIN msgs # {} THEN migration_insert(bc, msgs, migration_groups(msgs)) ELSE bc

\* Database._migrate_if_needed
migrate_if_needed(msgs, bc) ==
    IF DOMAIN msgs # {} /\ DOMAIN bc = {}
    THEN migration_insert(bc, msgs, migration_groups(msgs))
    ELSE bc

\* ------------------------------------- Database: global_frozen_users table
\* Fault of freeze_global: a second freeze of the same user removes the row.
freeze_global_toggle(gf, user_id, username) ==
    IF user_id \in DOMAIN gf THEN Del(gf, user_id) ELSE Put(gf, user_id, username)

\* Fault of is_globally_frozen: the lookup never finds the user.
is_globally_frozen_never(gf, user_id) == FALSE

is_globally_frozen(gf, user_id) == user_id \in DOMAIN gf

freeze_global(gf, user_id, username) == Put(gf, user_id, username)

unfreeze_global(gf, user_id) == Del(gf, user_id)

\* --------------------------------------------------------------- state
VARIABLES
    messages,               \* table messages: <<chat_id, message_id>> -> [user_id, bees_count]
    bee_count,              \* table bee_count: <<chat_id, user_id>> -> [username, count]
    global_frozen_users,    \* table global_frozen_users: user_id -> username
    applied,                \* history: per message, the net change its events made to bee_count
    suppressed,             \* history: per message, the net count recorded while its user was frozen
    frozen_writes,          \* history: messages whose latest Ledger write came from a frozen user
    nEvents,                \* history: number of handler invocations so far
    tasks,                  \* handler invocations in flight (asyncio tasks): task -> its locals
    keyboards,              \* confirmation keyboards sent to the owner: set of <<action, target_uid>>
    refused,                \* history: <<action, user>> of the commands answered "owner only"
    reached,                \* history: [message, handlers] for every message the dispatcher got
    skipped_at,             \* history: number of the latest event without from_user (0: none yet)
    serial,                 \* history: the tables after handling the started events one at a time
    connects,               \* history: number of restarts (runs of Database.connect) so far
    migrations              \* history: the restarts whose migration changed bee_count

vars == <<messages, bee_count, global_frozen_users, applied, suppressed, frozen_writes, nEvents,
          tasks, keyboards, refused, reached, skipped_at, serial, connects, migrations>>

dispatch_vars == <<keyboards, refused, reached>>

startup_vars == <<connects, migrations>>

StoredCount(msgs, key) == IF key \in DOMAIN msgs THEN msgs[key].bees_count ELSE 0

DB(msgs, bc) == [messages |-> msgs, bee_count |-> bc]

\* ------------------------------------------------------ Tally Engine
\* Fault of the created path: an event without user is handled like any other.
created_path_no_user_check(msgs, bc, gf, chat_id, message_id, user_id, username, count) ==
    IF get_message_bees(msgs, chat_id, message_id) # None THEN DB(msgs, bc)
    ELSE IF is_globally_frozen(gf, user_id)
    THEN DB(insert_message(msgs, chat_id, message_id, user_id, count), bc)
    ELSE DB(insert_message(msgs, chat_id, message_id, user_id, count),
            IF count > 0 THEN add_user_bees(bc, chat_id, user_id, username, count) ELSE bc)

\* spec.md 4.1 steps 2-4, on the Database helpers.
created_path(msgs, bc, gf, chat_id, message_id, user_id, username, count) ==
    IF user_id = NoUser THEN DB(msgs, bc)
    ELSE IF get_message_bees(msgs, chat_id, message_id) # None THEN DB(msgs, bc)
    ELSE IF is_globally_frozen(gf, user_id)
    THEN DB(insert_message(msgs, chat_id, message_id, user_id, count), bc)
    ELSE DB(insert_message(msgs, chat_id, message_id, user_id, count),
            IF count > 0 THEN add_user_bees(bc, chat_id, user_id, username, count) ELSE bc)

\* spec.md 4.2 steps 2-4, on the Database helpers.
edited_path(msgs, bc, gf, chat_id, message_id, user_id, username, new_count) ==
    IF user_id = NoUser THEN DB(msgs, bc)
    ELSE LET old_count == get_message_bees(msgs, chat_id, message_id)
             delta == new_count - old_count
         IN IF old_count = None
            THEN created_path(msgs, bc, gf, chat_id, message_id, user_id, username, new_count)
            ELSE IF is_globally_frozen(gf, user_id)
            THEN DB(update_message_bees(msgs, chat_id, message_id, new_count), bc)
            ELSE IF delta # 0
            THEN DB(update_message_bees(msgs, chat_id, message_id, new_count),
                    adjust_user_bees(bc, chat_id, user_id, delta))
            ELSE DB(msgs, bc)

\* History bookkeeping shared by both handlers: what the event did to the tables.
Account(r, chat_id, message_id, user_id) ==
    LET key == <<chat_id, message_id>>
    IN /\ applied' = [applied EXCEPT ![key] =
                        @ + get_total(r.bee_count, chat_id) - get_total(bee_count, chat_id)]
       /\ suppressed' =
            IF user_id # NoUser /\ is_globally_frozen(global_frozen_users, user_id)
            THEN [suppressed EXCEPT ![key] =
                    @ + StoredCount(r.messages, key) - StoredCount(messages, key)]
            ELSE suppressed
       /\ frozen_writes' =
            IF r.messages = messages THEN frozen_writes
            ELSE IF is_globally_frozen(global_frozen_users, user_id)
            THEN frozen_writes \cup {key}
            ELSE frozen_writes \ {key}
       /\ nEvents' = nEvents + 1
       /\ skipped_at' = IF user_id = NoUser THEN nEvents + 1 ELSE skipped_at

OnMessageCreated(chat_id, message_id, user_id, content) ==
    LET r == created_path(messages, bee_count, global_frozen_users, chat_id, message_id,
                          user_id, UsernameOf(user_id), count_bees_in_message(content))
    IN /\ nEvents < MaxEvents
       /\ messages' = r.messages
       /\ bee_count' = r.bee_count
       /\ Account(r, chat_id, message_id, user_id)
       /\ serial' = created_path(serial.messages, serial.bee_count, global_frozen_users, chat_id,
                                 message_id, user_id, UsernameOf(user_id),
                                 count_bees_in_message(content))
       /\ UNCHANGED <<global_frozen_users, tasks, dispatch_vars, startup_vars>>

OnMessageEdited(chat_id, message_id, user_id, content) ==
    LET r == edited_path(messages, bee_count, global_frozen_users, chat_id, message_id,
                         user_id, UsernameOf(user_id), count_bees_in_message(content))
    IN /\ nEvents < MaxEvents
       /\ messages' = r.messages
       /\ bee_count' = r.bee_count
       /\ Account(r, chat_id, message_id, user_id)
       /\ serial' = edited_path(serial.messages, serial.bee_count, global_frozen_users, chat_id,
                                message_id, user_id, UsernameOf(user_id),
                                count_bees_in_message(content))
       /\ UNCHANGED <<global_frozen_users, tasks, dispatch_vars, startup_vars>>

\* ------------------------------------------------ freeze workflow
\* callback_data f"{action}:{target_uid}" of the one button of the keyboard.
make_confirm_kb(action, target_uid) == <<action, target_uid>>

\* cmd_freeze / cmd_unfreeze after the target is resolved (target_uid = NoUser: no user
\* found): only the owner gets a keyboard, and only if bot.send_message did not raise.
ask_owner(kbs, action, from_user, target_uid, sent) ==
    IF from_user # OWNER_ID THEN kbs
    ELSE IF target_uid = NoUser THEN kbs
    ELSE IF sent THEN kbs \cup {make_confirm_kb(action, target_uid)}
    ELSE kbs

cmd_freeze(from_user, target_uid, sent) ==
    /\ keyboards' = ask_owner(keyboards, "freeze", from_user, target_uid, sent)
    /\ refused' = IF from_user # OWNER_ID THEN refused \cup {<<"freeze", from_user>>} ELSE refused
    /\ UNCHANGED <<messages, bee_count, global_frozen_users, applied, suppressed, frozen_writes,
                   nEvents, tasks, reached, skipped_at, serial, startup_vars>>

cmd_unfreeze(from_user, target_uid, sent) ==
    /\ keyboards' = ask_owner(keyboards, "unfreeze", from_user, target_uid, sent)
    /\ refused' = IF from_user # OWNER_ID THEN refused \cup {<<"unfreeze", from_user>>} ELSE refused
    /\ UNCHANGED <<messages, bee_count, global_frozen_users, applied, suppressed, frozen_writes,
                   nEvents, tasks, reached, skipped_at, serial, startup_vars>>

\* Fault of the confirmation: the sender of the callback is not checked.
on_confirm_apply_any_user(gf, from_user, action, target_uid) ==
    IF action = "freeze" THEN freeze_global(gf, target_uid, UsernameOf(target_uid))
    ELSE unfreeze_global(gf, target_uid)

\* The part of on_confirm after the owner check: spec.md 4.3 (insert-or-update / delete).
confirm_action(gf, action, target_uid, uname) ==
    IF action = "freeze" THEN freeze_global(gf, target_uid, uname)
    ELSE unfreeze_global(gf, target_uid)

on_confirm_apply(gf, from_user, action, target_uid) ==
    IF from_user # OWNER_ID THEN gf
    ELSE confirm_action(gf, action, target_uid, UsernameOf(target_uid))

on_confirm(from_user, action, target_uid) ==
    /\ global_frozen_users' =
            on_confirm_apply(global_frozen_users, from_user, action, target_uid)
    /\ UNCHANGED <<messages, bee_count, applied, suppressed, frozen_writes, nEvents, tasks,
                   dispatch_vars, startup_vars, skipped_at, serial>>

\* A user presses the button of a keyboard the bot has sent.
press(from_user, kb) ==
    /\ kb \in keyboards
    /\ on_confirm(from_user, kb[1], kb[2])

\* ------------------------------------------------------------ restart
\* The bot is started again: Database.connect finds the tables (CREATE TABLE IF NOT
\* EXISTS) and runs the migration before any handler runs; when one of the two
\* COUNT queries of the migration fails, the migration returns without a change.
connect ==
    /\ connects < MaxConnects
    /\ \E check_failed \in BOOLEAN :
        bee_count' = IF check_failed THEN bee_count
                     ELSE migrate_if_needed(messages, bee_count)
    /\ connects' = connects + 1
    /\ migrations' = IF bee_count' # bee_count THEN migrations \cup {connects + 1}
                     ELSE migrations
    /\ UNCHANGED <<messages, global_frozen_users, applied, suppressed, frozen_writes, nEvents,
                   tasks, dispatch_vars, skipped_at, serial>>

\* ------------------------------------------------------- dispatcher
\* The message handlers in the order of their @dp.message registration; on_message is
\* the counting handler, registered after the part of bot.py that ends at line 463.
Handlers ==
    <<"cmd_start", "cmd_pchol", "cmd_top", "cmd_frozenlist",
      "handle_uley_and_other_commands", "cmd_freeze", "cmd_unfreeze", "on_message">>

\* Command("...") of the handler's decorator.
CommandOf(h) ==
    CASE h = "cmd_start" -> "/start"
      [] h = "cmd_pchol" -> "/pchol"
      [] h = "cmd_top" -> "/top"
      [] h = "cmd_frozenlist" -> "/frozenlist"
      [] h = "cmd_freeze" -> "/freeze"
      [] h = "cmd_unfreeze" -> "/unfreeze"
      [] OTHER -> Null

\* The filters of a handler; a text is the sequence of its words, and @dp.message()
\* without arguments has no filter.
filter_matches(h, m) ==
    IF CommandOf(h) = Null THEN TRUE
    ELSE m.text # <<>> /\ Head(m.text) = CommandOf(h)

\* aiogram 3.x, message observer: the first registered handler whose filters pass is
\* called and the update is handled; a handler that returns does not pass it on.
trigger(m) ==
    LET hit == {i \in 1..Len(Handlers) : filter_matches(Handlers[i], m)}
    IN IF hit = {} THEN {}
       ELSE {Handlers[CHOOSE i \in hit : \A j \in hit : i <= j]}

\* handle_uley_and_other_commands goes on only for a text whose first word is "uley"
\* (the Cyrillic word of bot.py:282, with or without slash); it writes nothing.
is_uley_request(m) == m.text # <<>> /\ Head(m.text) \in {"uley", "/uley"}

\* int(arg) of the word after the command; NoUser when there is none.
target_of(m) ==
    IF Len(m.text) < 2 THEN NoUser
    ELSE CASE m.text[2] = "1" -> 1
           [] m.text[2] = "2" -> 2
           [] OTHER -> NoUser

DispatchTexts ==
    {<<>>, <<"/freeze", "2">>, <<"/unfreeze", "2">>, <<"uley">>, <<BEE>>, <<"/top">>}

\* Messages of chat 1; the one without text is a sticker.
DispatchMessages ==
    {[chat_id |-> 1, message_id |-> 1, from_user |-> u, text |-> t, caption |-> <<>>,
      sticker |-> IF t = <<>> THEN <<BEE>> ELSE <<>>] : u \in Users, t \in DispatchTexts}

\* The dispatcher gets message m: the handlers that trigger calls run.
Deliver(m) ==
    LET hs == trigger(m)
        action == IF "cmd_freeze" \in hs THEN "freeze" ELSE "unfreeze"
        asked == hs \cap {"cmd_freeze", "cmd_unfreeze"} # {}
    IN /\ reached' = reached \cup {[message |-> m, handlers |-> hs]}
       /\ keyboards' = IF asked
                       THEN ask_owner(keyboards, action, m.from_user, target_of(m), TRUE)
                       ELSE keyboards
       /\ refused' = IF asked /\ m.from_user # OWNER_ID
                     THEN refused \cup {<<action, m.from_user>>}
                     ELSE refused
       /\ IF "on_message" \in hs
          THEN LET r == created_path(messages, bee_count, global_frozen_users, m.chat_id,
                                     m.message_id, m.from_user, UsernameOf(m.from_user),
                                     count_bees_in_message(m))
               IN /\ nEvents < MaxEvents
                  /\ messages' = r.messages
                  /\ bee_count' = r.bee_count
                  /\ Account(r, m.chat_id, m.message_id, m.from_user)
                  /\ serial' = r
          ELSE UNCHANGED <<messages, bee_count, applied, suppressed, frozen_writes, nEvents,
                           skipped_at, serial>>
       /\ UNCHANGED <<global_frozen_users, tasks, startup_vars>>

\* ------------------------------------- handlers as concurrent tasks
\* Every Database helper acquires its own pooled connection and runs one statement in
\* autocommit; a handler awaits the helpers one after another, so other handlers run
\* between two helper calls, and a helper call may raise (connection loss, timeout).
TaskIds == {"t1", "t2"}

NewTask(kind, e) ==
    [pc |-> IF e[2] = NoUser THEN "done" ELSE "lookup",
     kind |-> kind, path |-> "none",
     chat_id |-> e[1][1], message_id |-> e[1][2], user_id |-> e[2],
     count |-> count_bees_in_message(e[3]),
     old_count |-> None, frozen |-> FALSE,
     wrote_ledger |-> FALSE, wrote_agg |-> FALSE]

IdleTask == [NewTask("none", <<<<1, 1>>, NoUser, [text |-> <<>>, caption |-> <<>>, sticker |-> <<>>]>>)
                EXCEPT !.pc = "idle"]

\* The dispatcher starts a handler for a delivered event.
Start(t, kind, e) ==
    /\ tasks[t].pc \in {"idle", "done", "failed"}
    /\ nEvents < MaxEvents
    /\ tasks' = [tasks EXCEPT ![t] = NewTask(kind, e)]
    /\ nEvents' = nEvents + 1
    /\ skipped_at' = IF e[2] = NoUser THEN nEvents + 1 ELSE skipped_at
    /\ serial' = IF kind = "created"
                 THEN created_path(serial.messages, serial.bee_count, global_frozen_users,
                                   e[1][1], e[1][2], e[2], UsernameOf(e[2]),
                                   count_bees_in_message(e[3]))
                 ELSE edited_path(serial.messages, serial.bee_count, global_frozen_users,
                                  e[1][1], e[1][2], e[2], UsernameOf(e[2]),
                                  count_bees_in_message(e[3]))
    /\ UNCHANGED <<messages, bee_count, global_frozen_users, applied, suppressed, frozen_writes,
                   dispatch_vars, startup_vars>>

\* await db.get_message_bees(...)
Lookup(t) ==
    LET T == tasks[t]
        old == get_message_bees(messages, T.chat_id, T.message_id)
    IN /\ T.pc = "lookup"
       /\ tasks' = [tasks EXCEPT ![t] =
                [T EXCEPT !.old_count = old,
                          !.path = IF old = None THEN "create" ELSE "edit",
                          !.pc = IF T.kind = "created" /\ old # None THEN "done" ELSE "check"]]
       /\ UNCHANGED <<messages, bee_count, global_frozen_users, applied, suppressed,
                      frozen_writes, nEvents, dispatch_vars, startup_vars, skipped_at, serial>>

\* await db.is_globally_frozen(...)
Check(t) ==
    LET T == tasks[t]
        fr == is_globally_frozen(global_frozen_users, T.user_id)
    IN /\ T.pc = "check"
       /\ tasks' = [tasks EXCEPT ![t] =
                [T EXCEPT !.frozen = fr,
                          !.pc = IF T.path = "create" THEN "insert"
                                 ELSE IF fr THEN "update"
                                 ELSE IF T.count - T.old_count # 0 THEN "adjust"
                                 ELSE "done"]]
       /\ UNCHANGED <<messages, bee_count, global_frozen_users, applied, suppressed,
                      frozen_writes, nEvents, dispatch_vars, startup_vars, skipped_at, serial>>

\* History bookkeeping of a Ledger write made by task T.
AccountLedger(T, msgs) ==
    LET key == <<T.chat_id, T.message_id>>
    IN /\ suppressed' =
            IF T.frozen
            THEN [suppressed EXCEPT ![key] = @ + StoredCount(msgs, key) - StoredCount(messages, key)]
            ELSE suppressed
       /\ frozen_writes' =
            IF msgs = messages THEN frozen_writes
            ELSE IF T.frozen THEN frozen_writes \cup {key}
            ELSE frozen_writes \ {key}

\* History bookkeeping of an aggregate write made by task T.
AccountAggregate(T, bc) ==
    applied' = [applied EXCEPT ![<<T.chat_id, T.message_id>>] =
                    @ + get_total(bc, T.chat_id) - get_total(bee_count, T.chat_id)]

\* await db.insert_message(...)
Insert(t) ==
    LET T == tasks[t]
        msgs == insert_message(messages, T.chat_id, T.message_id, T.user_id, T.count)
    IN /\ T.pc = "insert"
       /\ messages' = msgs
       /\ AccountLedger(T, msgs)
       /\ tasks' = [tasks EXCEPT ![t] =
                [T EXCEPT !.wrote_ledger = (msgs # messages),
                          !.pc = IF ~T.frozen /\ T.count > 0 THEN "add" ELSE "done"]]
       /\ UNCHANGED <<bee_count, global_frozen_users, applied, nEvents, dispatch_vars, startup_vars,
                      skipped_at, serial>>

\* await db.add_user_bees(...)
Add(t) ==
    LET T == tasks[t]
        bc == add_user_bees(bee_count, T.chat_id, T.user_id, UsernameOf(T.user_id), T.count)
    IN /\ T.pc = "add"
       /\ bee_count' = bc
       /\ AccountAggregate(T, bc)
       /\ tasks' = [tasks EXCEPT ![t] = [T EXCEPT !.wrote_agg = TRUE, !.pc = "done"]]
       /\ UNCHANGED <<messages, global_frozen_users, suppressed, frozen_writes, nEvents,
                      dispatch_vars, startup_vars, skipped_at, serial>>

\* await db.adjust_user_bees(...)
Adjust(t) ==
    LET T == tasks[t]
        bc == adjust_user_bees(bee_count, T.chat_id, T.user_id, T.count - T.old_count)
    IN /\ T.pc = "adjust"
       /\ bee_count' = bc
       /\ AccountAggregate(T, bc)
       /\ tasks' = [tasks EXCEPT ![t] = [T EXCEPT !.wrote_agg = TRUE, !.pc = "update"]]
       /\ UNCHANGED <<messages, global_frozen_users, suppressed, frozen_writes, nEvents,
                      dispatch_vars, startup_vars, skipped_at, serial>>

\* await db.update_message_bees(...)
Update(t) ==
    LET T == tasks[t]
        msgs == update_message_bees(messages, T.chat_id, T.message_id, T.count)
    IN /\ T.pc = "update"
       /\ messages' = msgs
       /\ AccountLedger(T, msgs)
       /\ tasks' = [tasks EXCEPT ![t] = [T EXCEPT !.wrote_ledger = TRUE, !.pc = "done"]]
       /\ UNCHANGED <<bee_count, global_frozen_users, applied, nEvents, dispatch_vars, startup_vars,
                      skipped_at, serial>>

\* Fault of the failure handling: the handler is run again from its first step.
Fail_retries(t) ==
    /\ tasks[t].pc \in {"lookup", "check", "insert", "add", "adjust", "update"}
    /\ tasks' = [tasks EXCEPT ![t].pc = "lookup"]
    /\ UNCHANGED <<messages, bee_count, global_frozen_users, applied, suppressed,
                   frozen_writes, nEvents, dispatch_vars, startup_vars, skipped_at, serial>>

\* The awaited helper raises: the statement did not run and the handler ends.
Fail(t) ==
    /\ tasks[t].pc \in {"lookup", "check", "insert", "add", "adjust", "update"}
    /\ tasks' = [tasks EXCEPT ![t].pc = "failed"]
    /\ UNCHANGED <<messages, bee_count, global_frozen_users, applied, suppressed,
                   frozen_writes, nEvents, dispatch_vars, startup_vars, skipped_at, serial>>

Step(t) ==
    \/ Lookup(t)
    \/ Check(t)
    \/ Insert(t)
    \/ Add(t)
    \/ Adjust(t)
    \/ Update(t)

\* ------------------------------------------------------ specification
Init ==
    /\ messages = EmptyTable
    /\ bee_count = EmptyTable
    /\ global_frozen_users = EmptyTable
    /\ applied = [k \in Keys |-> 0]
    /\ suppressed = [k \in Keys |-> 0]
    /\ frozen_writes = {}
    /\ nEvents = 0
    /\ tasks = [t \in TaskIds |-> IdleTask]
    /\ keyboards = {}
    /\ refused = {}
    /\ reached = {}
    /\ skipped_at = 0
    /\ serial = DB(EmptyTable, EmptyTable)
    /\ connects = 0
    /\ migrations = {}

\* The created/edited events for the messages K: <<key, user, content>>.
EventsOn(K) == (K \X Users \X Contents) \cup (K \X {NoUser} \X SystemContents)

Events == EventsOn(Keys)

NextOn(K) ==
    \/ \E e \in EventsOn(K) : OnMessageCreated(e[1][1], e[1][2], e[2], e[3])
    \/ \E e \in EventsOn(K) : OnMessageEdited(e[1][1], e[1][2], e[2], e[3])
    \/ \E a \in Users, act \in {"freeze", "unfreeze"}, t \in Users :
            on_confirm(a, act, t)

Next == NextOn(KeysOneChat)

Spec == Init /\ [][Next]_vars

NextChats == NextOn(KeysTwoChats)

SpecChats == Init /\ [][NextChats]_vars

\* The freeze workflow next to the creations of one message.
NextAdmin ==
    \/ \E e \in EventsOn({<<1, 1>>}) : OnMessageCreated(e[1][1], e[1][2], e[2], e[3])
    \/ \E a \in Users, t \in Users \cup {NoUser}, sent \in BOOLEAN : cmd_freeze(a, t, sent)
    \/ \E a \in Users, t \in Users \cup {NoUser}, sent \in BOOLEAN : cmd_unfreeze(a, t, sent)
    \/ \E a \in Users, kb \in keyboards : press(a, kb)

SpecAdmin == Init /\ [][NextAdmin]_vars

\* The messages tables a deployment can hold when bee_count is first created: rows
\* with or without user_id (the column is nullable) and any count.
LegacyLedgers ==
    LET rows == [user_id : Users \cup {NoUser}, bees_count : 0..MaxBees]
    IN UNION {[K -> rows] : K \in SUBSET KeysOneChat}

\* The database at the first start of a version that has the bee_count table.
InitRestart ==
    /\ messages \in LegacyLedgers
    /\ bee_count = EmptyTable
    /\ global_frozen_users = EmptyTable
    /\ applied = [k \in Keys |-> 0]
    /\ suppressed = [k \in Keys |-> 0]
    /\ frozen_writes = {}
    /\ nEvents = 0
    /\ tasks = [t \in TaskIds |-> IdleTask]
    /\ keyboards = {}
    /\ refused = {}
    /\ reached = {}
    /\ skipped_at = 0
    /\ serial = DB(messages, EmptyTable)
    /\ connects = 0
    /\ migrations = {}

\* Restarts, and between them events for one message, handled one at a time.
NextRestart ==
    \/ \E e \in EventsOn({<<1, 2>>}) : OnMessageCreated(e[1][1], e[1][2], e[2], e[3])
    \/ \E e \in EventsOn({<<1, 2>>}) : OnMessageEdited(e[1][1], e[1][2], e[2], e[3])
    \/ connect

SpecRestart == InitRestart /\ [][NextRestart]_vars

\* Messages as the dispatcher gets them from Telegram.
NextDispatch == \E m \in DispatchMessages : Deliver(m)

SpecDispatch == Init /\ [][NextDispatch]_vars

\* Two handlers in flight for the messages of chat 1, no helper call fails.
NextConc ==
    \/ \E t \in TaskIds, e \in EventsOn(KeysOneChat) : Start(t, "created", e)
    \/ \E t \in TaskIds, e \in EventsOn(KeysOneChat) : Start(t, "edited", e)
    \/ \E t \in TaskIds : Step(t)

SpecConc == Init /\ [][NextConc]_vars

\* Events are handled one at a time and the owner confirms until the first of two
\* handlers starts; the two handlers then run interleaved for different messages of
\* chat 1: a creation for message 1 and an edit for message 2.
Quiet == \A t \in TaskIds : tasks[t].pc \in {"idle", "done", "failed"}

AllIdle == \A t \in TaskIds : tasks[t].pc = "idle"

NextKeys ==
    \/ \E e \in EventsOn(KeysOneChat) :
            AllIdle /\ OnMessageCreated(e[1][1], e[1][2], e[2], e[3])
    \/ \E e \in EventsOn(KeysOneChat) :
            AllIdle /\ OnMessageEdited(e[1][1], e[1][2], e[2], e[3])
    \/ \E act \in {"freeze", "unfreeze"} : AllIdle /\ on_confirm(OWNER_ID, act, 2)
    \/ \E e \in EventsOn({<<1, 1>>}) : tasks["t1"].pc = "idle" /\ Start("t1", "created", e)
    \/ \E e \in EventsOn({<<1, 2>>}) : tasks["t2"].pc = "idle" /\ Start("t2", "edited", e)
    \/ \E t \in TaskIds : Step(t)

SpecKeys == Init /\ [][NextKeys]_vars

\* One handler at a time for the messages of chat 1, helper calls may fail.
NextFail ==
    \/ \E e \in EventsOn(KeysOneChat) : Start("t1", "created", e)
    \/ \E e \in EventsOn(KeysOneChat) : Start("t1", "edited", e)
    \/ Step("t1")
    \/ Fail("t1")

SpecFail == Init /\ [][NextFail]_vars

\* The same for the events of one message; the event loop keeps running the handler:
\* an awaited helper returns or raises.
NextFailLive ==
    \/ \E e \in EventsOn({<<1, 1>>}) : Start("t1", "created", e)
    \/ \E e \in EventsOn({<<1, 1>>}) : Start("t1", "edited", e)
    \/ Step("t1")
    \/ Fail("t1")

SpecFailLive == Init /\ [][NextFailLive]_vars /\ WF_vars(Step("t1") \/ Fail("t1"))

\* ====================================================================
\* Properties
\* ====================================================================
EvKey(e) == e[1]
EvChat(e) == e[1][1]
EvMsg(e) == e[1][2]
EvUser(e) == e[2]
EvCount(e) == count_bees_in_message(e[3])

Created(e) == OnMessageCreated(EvChat(e), EvMsg(e), EvUser(e), e[3])
Edited(e) == OnMessageEdited(EvChat(e), EvMsg(e), EvUser(e), e[3])

\* The tables after handling e as a creation / as an edit, starting from tables (msgs, bc).
AfterCreated(msgs, bc, e) ==
    created_path(msgs, bc, global_frozen_users, EvChat(e), EvMsg(e), EvUser(e),
                 UsernameOf(EvUser(e)), EvCount(e))

AfterEdited(msgs, bc, e) ==
    edited_path(msgs, bc, global_frozen_users, EvChat(e), EvMsg(e), EvUser(e),
                UsernameOf(EvUser(e)), EvCount(e))

\* Aggregate total of one (chat, user) row, 0 when there is no row.
Total(bc, c, u) == IF <<c, u>> \in DOMAIN bc THEN bc[<<c, u>>].count ELSE 0

ChatTotal(bc, c) == SumOver([u \in Users |-> Total(bc, c, u)], Users)

Frozen == DOMAIN global_frozen_users

\* C1: handling a creation twice with the same arguments leaves the Ledger and the
\* Aggregate Store exactly as handling it once does.
C1_IdempotentCreation ==
    \A e \in Events :
        \A once \in {AfterCreated(messages, bee_count, e)} :
            AfterCreated(once.messages, once.bee_count, e) = once

\* Two events were handled, and the tables hold the effect of one creation with count 1.
C1_Witness ==
    /\ nEvents = 2
    /\ \E k \in Keys :
        /\ DOMAIN messages = {k}
        /\ messages[k].bees_count = 1
        /\ DOMAIN bee_count = {<<k[1], messages[k].user_id>>}
        /\ Total(bee_count, k[1], messages[k].user_id) = 1

\* C2: an edit by a user who is not frozen changes that user's total in the chat by
\* exactly new count - stored count (and no other total), and stores the new count; a
\* message none of whose count was recorded under a freeze contributes its stored count.
C2_EditDelta ==
    /\ \A e \in Events :
        (EvUser(e) \in Users \ Frozen /\ EvKey(e) \in DOMAIN messages) =>
            \A r \in {AfterEdited(messages, bee_count, e)} :
               /\ Total(r.bee_count, EvChat(e), EvUser(e)) =
                    Total(bee_count, EvChat(e), EvUser(e))
                        + EvCount(e) - messages[EvKey(e)].bees_count
               /\ \A c \in Chats, u \in Users :
                    <<c, u>> # <<EvChat(e), EvUser(e)>> =>
                        Total(r.bee_count, c, u) = Total(bee_count, c, u)
               /\ r.messages[EvKey(e)].bees_count = EvCount(e)
    /\ \A k \in DOMAIN messages : suppressed[k] = 0 => applied[k] = messages[k].bees_count

\* One message of user 1, created with count 0, edited to 1 and edited back to 0: the
\* row of user 1 was inserted by adjust_user_bees (no username) and is back at 0.
C2_Witness ==
    /\ nEvents = 3
    /\ \E k \in Keys :
        /\ DOMAIN messages = {k}
        /\ messages[k] = [user_id |-> 1, bees_count |-> 0]
        /\ DOMAIN bee_count = {<<k[1], 1>>}
        /\ bee_count[<<k[1], 1>>] = [username |-> Null, count |-> 0]

\* Sum of the stored counts of the messages of chat c that satisfy keep.
LedgerSum(c, keep(_)) ==
    LET ks == {k \in DOMAIN messages : k[1] = c /\ keep(k)}
    IN SumOver([k \in ks |-> messages[k].bees_count], ks)

\* C3 (as stated): a handler that ended in a failed store operation has committed
\* both its Ledger write and its aggregate delta, or neither.
C3_Original ==
    \A t \in TaskIds :
        tasks[t].pc = "failed" => (tasks[t].wrote_ledger <=> tasks[t].wrote_agg)

\* C4 (as stated): when the handlers have finished (none failed, nobody is frozen),
\* every message has contributed to the aggregate exactly the count the Ledger stores.
C4_Original ==
    (\A t \in TaskIds : tasks[t].pc \in {"idle", "done"}) =>
        \A k \in DOMAIN messages : applied[k] = messages[k].bees_count

\* C5 (as stated): per chat, the aggregate totals add up to the stored counts of the
\* messages whose user was not frozen when the Ledger entry was written.
C5_Original ==
    \A c \in Chats :
        ChatTotal(bee_count, c) = LedgerSum(c, LAMBDA k : k \notin frozen_writes)

\* C5 (amended): per chat, the aggregate totals add up to the stored counts minus
\* the part of each count that was recorded while the event's user was frozen.
C5_AggregateLedger ==
    \A c \in Chats :
        LET ks == {k \in Keys : k[1] = c}
        IN ChatTotal(bee_count, c) =
                LedgerSum(c, LAMBDA k : TRUE) - SumOver(suppressed, ks)

\* A message created with count 1 under a freeze and edited to 0 after the unfreeze.
C5_Witness ==
    \E k \in DOMAIN messages :
        /\ suppressed[k] = 1
        /\ applied[k] = -1
        /\ messages[k].bees_count = 0
        /\ k \notin frozen_writes

\* The aggregate rows stay as they are when an event of a frozen user is handled.
FrozenEventsKeepTotals ==
    \A e \in Events :
        EvUser(e) \in Frozen =>
            /\ AfterCreated(messages, bee_count, e).bee_count = bee_count
            /\ AfterEdited(messages, bee_count, e).bee_count = bee_count

\* C6: a step that changes the Exclusion Registry changes no aggregate row, and a
\* created or edited event of a user in the registry changes no aggregate row.
C6_FreezeKeepsTotals ==
    /\ []FrozenEventsKeepTotals
    /\ [][global_frozen_users' # global_frozen_users => bee_count' = bee_count]_vars

\* A frozen user with total 1 in a chat and a later message of that user, recorded
\* with count 1 under the freeze, in the same chat.
C6_Witness ==
    \E u \in Frozen, k \in frozen_writes :
        /\ messages[k].user_id = u
        /\ suppressed[k] = 1
        /\ Total(bee_count, k[1], u) = 1
        /\ ChatTotal(bee_count, k[1]) = 1

\* C7 (as stated): an event of a frozen user that changes the Ledger writes the entry
\* with the new count and the event's user, and changes no aggregate row.
C7_Original ==
    [][\A e \in Events :
        (EvUser(e) \in Frozen /\ (Created(e) \/ Edited(e)) /\ messages' # messages)
        => /\ messages'[EvKey(e)] = [user_id |-> EvUser(e), bees_count |-> EvCount(e)]
           /\ bee_count' = bee_count]_vars

\* C8: creating a message without the symbol stores a Ledger entry with count 0 and
\* leaves the Aggregate Store as it is; editing a stored count-0 message to k > 0 by
\* a user who is not frozen raises that user's total by exactly k.
C8_ZeroCountTracked ==
    /\ \A e \in Events :
        (EvUser(e) \in Users /\ EvKey(e) \notin DOMAIN messages /\ EvCount(e) = 0) =>
            \A r \in {AfterCreated(messages, bee_count, e)} :
               /\ EvKey(e) \in DOMAIN r.messages
               /\ r.messages[EvKey(e)] = [user_id |-> EvUser(e), bees_count |-> 0]
               /\ r.bee_count = bee_count
    /\ \A e \in Events :
        (/\ EvUser(e) \in Users \ Frozen
         /\ EvKey(e) \in DOMAIN messages
         /\ messages[EvKey(e)].bees_count = 0
         /\ EvCount(e) > 0) =>
            \A r \in {AfterEdited(messages, bee_count, e)} :
               Total(r.bee_count, EvChat(e), EvUser(e)) =
                    Total(bee_count, EvChat(e), EvUser(e)) + EvCount(e)

\* One message of user 1 created with count 0 and edited to 1: the aggregate row was
\* inserted by the edit (adjust_user_bees stores no username).
C8_Witness ==
    /\ nEvents = 2
    /\ \E k \in Keys :
        /\ DOMAIN messages = {k}
        /\ messages[k] = [user_id |-> 1, bees_count |-> 1]
        /\ DOMAIN bee_count = {<<k[1], 1>>}
        /\ bee_count[<<k[1], 1>>] = [username |-> Null, count |-> 1]

\* C9: an edit for a message without Ledger entry stores the entry with the edited
\* content's count and the event's user and adds that count to the user's total unless
\* the user is frozen; a creation of the same message handled afterwards changes nothing.
C9_EditBeforeCreate ==
    \A e \in Events :
        (EvUser(e) \in Users /\ EvKey(e) \notin DOMAIN messages) =>
            \A r \in {AfterEdited(messages, bee_count, e)} :
               /\ r.messages =
                    Put(messages, EvKey(e), [user_id |-> EvUser(e), bees_count |-> EvCount(e)])
               /\ \A c \in Chats, u \in Users :
                    Total(r.bee_count, c, u) =
                        Total(bee_count, c, u)
                            + (IF <<c, u>> = <<EvChat(e), EvUser(e)>> /\ u \notin Frozen
                               THEN EvCount(e) ELSE 0)
               /\ \A d \in Events :
                    EvKey(d) = EvKey(e) => AfterCreated(r.messages, r.bee_count, d) = r

\* Two events for one message: the tables hold one entry with count 1, counted once.
C9_Witness ==
    /\ nEvents = 2
    /\ \E k \in Keys :
        /\ DOMAIN messages = {k}
        /\ messages[k] = [user_id |-> 2, bees_count |-> 1]
        /\ applied[k] = 1
        /\ Total(bee_count, k[1], 2) = 1

\* The rows of table tbl that belong to chat c.
RowsOf(tbl, c) == [k \in {q \in DOMAIN tbl : q[1] = c} |-> tbl[k]]

\* C10: a created or edited event of chat A leaves the Ledger rows and the aggregate
\* rows of every other chat B, and the answers of get_total, get_top10 and
\* get_user_count for B, as they were.
C10_ConversationIsolation ==
    \A e \in Events : \A B \in Chats \ {EvChat(e)} :
        \A r \in {AfterCreated(messages, bee_count, e), AfterEdited(messages, bee_count, e)} :
            /\ RowsOf(r.messages, B) = RowsOf(messages, B)
            /\ RowsOf(r.bee_count, B) = RowsOf(bee_count, B)
            /\ get_total(r.bee_count, B) = get_total(bee_count, B)
            /\ get_top10(r.bee_count, B) = get_top10(bee_count, B)
            /\ \A u \in Users :
                    get_user_count(r.bee_count, B, u) = get_user_count(bee_count, B, u)

\* The same user has a counted message in both chats.
C10_Witness ==
    \E u \in Users :
        /\ Total(bee_count, 1, u) = 1
        /\ Total(bee_count, 2, u) = 1
        /\ \E k1, k2 \in DOMAIN messages : k1[1] = 1 /\ k2[1] = 2

Tables == <<messages, bee_count, global_frozen_users>>

\* C11: cmd_freeze, cmd_unfreeze and on_confirm called by anybody but the owner leave
\* the three tables and the keyboards as they are, and the Exclusion Registry changes
\* only in a confirmation by the owner.
C11_OwnerOnly ==
    [][/\ \A a \in Users \ {OWNER_ID}, t \in Users \cup {NoUser}, sent \in BOOLEAN :
            (cmd_freeze(a, t, sent) \/ cmd_unfreeze(a, t, sent)) =>
                UNCHANGED <<Tables, keyboards>>
       /\ \A a \in Users \ {OWNER_ID}, act \in {"freeze", "unfreeze"}, t \in Users :
            on_confirm(a, act, t) => UNCHANGED <<Tables, keyboards>>
       /\ global_frozen_users' # global_frozen_users =>
            \E act \in {"freeze", "unfreeze"}, t \in Users : on_confirm(OWNER_ID, act, t)]_vars

\* User 2 was refused both commands; the only keyboard is the owner's, for freezing
\* user 2, and the owner has confirmed it; one message is counted.
C11_Witness ==
    /\ refused = {<<"freeze", 2>>, <<"unfreeze", 2>>}
    /\ keyboards = {make_confirm_kb("freeze", 2)}
    /\ DOMAIN global_frozen_users = {2}
    /\ DOMAIN messages # {}
    /\ DOMAIN bee_count # {}

\* C12: a confirmed freeze of a user who is in the Exclusion Registry keeps the set of
\* excluded users, a confirmed unfreeze of a user who is not in it keeps the registry,
\* and confirming the same keyboard a second time gives the registry of the first time
\* (the same set of users whatever bot.get_chat then answers for the username).
C12_ConfirmIdempotent ==
    \A act \in {"freeze", "unfreeze"}, t \in Users :
        \A once \in {on_confirm_apply(global_frozen_users, OWNER_ID, act, t)} :
            /\ on_confirm_apply(once, OWNER_ID, act, t) = once
            /\ (act = "freeze" /\ t \in DOMAIN global_frozen_users) =>
                    DOMAIN once = DOMAIN global_frozen_users
            /\ (act = "unfreeze" /\ t \notin DOMAIN global_frozen_users) =>
                    once = global_frozen_users
            /\ \A un1, un2 \in {Null, "name"} :
                    \A first \in {confirm_action(global_frozen_users, act, t, un1)} :
                        DOMAIN confirm_action(first, act, t, un2) = DOMAIN first

\* User 2 is frozen and the keyboard that froze them is still there to be pressed
\* again, next to a keyboard for unfreezing user 1, who is not frozen.
C12_Witness ==
    /\ DOMAIN global_frozen_users = {2}
    /\ keyboards = {make_confirm_kb("freeze", 2), make_confirm_kb("unfreeze", 1)}

\* C13 (as stated): every answer of get_top10 for a chat has at most TopLimit rows, all
\* of that chat, in non-increasing order of count, and two calls on the same bee_count
\* table give the same sequence.
C13_Original ==
    \A c \in Chats :
        /\ \A s \in get_top10(bee_count, c) :
            /\ Len(s) <= TopLimit
            /\ \A i \in 1..Len(s) :
                /\ <<c, s[i].user_id>> \in DOMAIN bee_count
                /\ s[i].count = bee_count[<<c, s[i].user_id>>].count
            /\ \A i, j \in 1..Len(s) : i < j => s[i].count >= s[j].count
        /\ \A s1, s2 \in get_top10(bee_count, c) : s1 = s2

\* C14: get_total of a chat is the sum of get_user_count over the users, get_user_count
\* is 0 for a user without row, and get_total is 0 for a chat without rows.
C14_QueryTotals ==
    \A c \in Chats :
        /\ get_total(bee_count, c) =
                SumOver([u \in Users |-> get_user_count(bee_count, c, u)], Users)
        /\ \A u \in Users :
                <<c, u>> \notin DOMAIN bee_count => get_user_count(bee_count, c, u) = 0
        /\ (\A k \in DOMAIN bee_count : k[1] # c) => get_total(bee_count, c) = 0

\* User 1 has two counted messages in chat 1, user 2 has no row there, and chat 2 has no rows.
C14_Witness ==
    /\ DOMAIN bee_count = {<<1, 1>>}
    /\ get_user_count(bee_count, 1, 1) = 2
    /\ get_total(bee_count, 1) = 2

\* C15: an edit whose content has the count the Ledger stores for the message changes
\* no aggregate row and keeps the stored count, and handling any edit a second time
\* leaves the tables as the first handling left them.
C15_RepeatedEdit ==
    \A e \in Events :
        \A once \in {AfterEdited(messages, bee_count, e)} :
            /\ (/\ EvUser(e) \in Users
                /\ EvKey(e) \in DOMAIN messages
                /\ messages[EvKey(e)].bees_count = EvCount(e)) =>
                    /\ once.bee_count = bee_count
                    /\ once.messages[EvKey(e)].bees_count = EvCount(e)
            /\ AfterEdited(once.messages, once.bee_count, e) = once

\* A message of user 1 created with count 0 and edited to 1, and a third event for it
\* that changed nothing.
C15_Witness ==
    /\ nEvents = 3
    /\ skipped_at = 0
    /\ global_frozen_users = EmptyTable
    /\ \E k \in Keys :
        /\ DOMAIN messages = {k}
        /\ messages[k] = [user_id |-> 1, bees_count |-> 1]
        /\ bee_count = Put(EmptyTable, <<k[1], 1>>, [username |-> Null, count |-> 1])

\* C16: a created event without user, and an edit without user for a message that has
\* no Ledger entry, leave the Ledger and the Aggregate Store as they are, and when the
\* latest event had no user the next event of a user can be handled.
C16_MissingUser ==
    /\ \A e \in Events :
        EvUser(e) = NoUser =>
            /\ AfterCreated(messages, bee_count, e) = DB(messages, bee_count)
            /\ EvKey(e) \notin DOMAIN messages =>
                    AfterEdited(messages, bee_count, e) = DB(messages, bee_count)
    /\ (skipped_at > 0 /\ skipped_at = nEvents /\ nEvents < MaxEvents) =>
            ENABLED (\E e \in EventsOn(KeysTwoChats) : EvUser(e) # NoUser /\ Created(e))

\* The first event had no user and left no trace; the second one was counted.
C16_Witness ==
    /\ skipped_at = 1
    /\ nEvents = 2
    /\ \E k \in Keys :
        /\ DOMAIN messages = {k}
        /\ messages[k].bees_count = 1
        /\ applied[k] = 1
        /\ get_total(bee_count, k[1]) = 1

\* The tables after handling e as a creation or as an edit.
After(kind, db, e) ==
    IF kind = "created" THEN AfterCreated(db.messages, db.bee_count, e)
    ELSE AfterEdited(db.messages, db.bee_count, e)

\* Same Ledger and same aggregate totals.
SameOutcome(db1, db2) ==
    /\ db1.messages = db2.messages
    /\ \A c \in Chats, u \in Users : Total(db1.bee_count, c, u) = Total(db2.bee_count, c, u)

\* C17: where two more events can be handled, two events for different messages give
\* the same Ledger and the same totals in both orders, and when the handlers that ran interleaved for different messages have
\* finished, the Ledger and the totals are those of handling the events one at a time.
C17_OrderIndependence ==
    /\ (AllIdle /\ nEvents + 2 <= MaxEvents) => \A e1 \in EventsOn({<<1, 1>>}), e2 \in EventsOn({<<1, 2>>}) :
        \A k1, k2 \in {"created", "edited"} :
            SameOutcome(After(k2, After(k1, DB(messages, bee_count), e1), e2),
                        After(k1, After(k2, DB(messages, bee_count), e2), e1))
    /\ Quiet => SameOutcome(DB(messages, bee_count), serial)

\* Two handlers of user 1 in flight for the two messages: one is about to add its
\* count, the other has adjusted the same aggregate row and has its Ledger update ahead.
C17_Witness ==
    /\ tasks["t1"].pc = "add"
    /\ tasks["t2"].pc = "update"
    /\ tasks["t2"].wrote_agg
    /\ tasks["t1"].user_id = 1
    /\ tasks["t2"].user_id = 1

\* C18 (as stated, for the commands): a /freeze message of the owner reaches cmd_freeze
\* and an /unfreeze message of the owner reaches cmd_unfreeze.
C18_Original ==
    \A r \in reached :
        /\ (r.message.from_user = OWNER_ID /\ filter_matches("cmd_freeze", r.message)) =>
                "cmd_freeze" \in r.handlers
        /\ (r.message.from_user = OWNER_ID /\ filter_matches("cmd_unfreeze", r.message)) =>
                "cmd_unfreeze" \in r.handlers

\* C19 (as stated): no row of bee_count has a negative count.
C19_Original ==
    \A k \in DOMAIN bee_count : bee_count[k].count >= 0

\* Some created or edited event can be started.
CanStart ==
    ENABLED (\E e \in EventsOn({<<1, 1>>}), kind \in {"created", "edited"} : Start("t1", kind, e))

InFlight(t) == tasks[t].pc \in {"lookup", "check", "insert", "add", "adjust", "update"}

\* C20: a handler that failed writes nothing more (it is not run again), no handler
\* changes the Aggregate Store twice, after a failure the next event can be started as
\* long as events are delivered, and every started handler comes to its end.
C20_FailedEventDropped ==
    /\ []((tasks["t1"].pc = "failed" /\ nEvents < MaxEvents) => CanStart)
    /\ [][/\ tasks["t1"].pc = "failed" =>
                /\ messages' = messages
                /\ bee_count' = bee_count
                /\ tasks'["t1"].pc \in {"lookup", "done"}
                /\ nEvents' = nEvents + 1
          /\ applied' # applied => (~tasks["t1"].wrote_agg /\ tasks'["t1"].wrote_agg)
          /\ bee_count' # bee_count => (~tasks["t1"].wrote_agg /\ tasks'["t1"].wrote_agg)]_vars
    /\ (InFlight("t1") ~> (tasks["t1"].pc \in {"done", "failed"}))

\* The handler that created the message failed between its Ledger write and its
\* aggregate write (count 1 stored, nothing added); the handler of a later edit to
\* count 0 ran to its end and subtracted 1.
C20_Witness ==
    /\ tasks["t1"].pc = "done"
    /\ tasks["t1"].kind = "edited"
    /\ tasks["t1"].wrote_ledger
    /\ tasks["t1"].wrote_agg
    /\ messages[<<1, 1>>].bees_count = 0
    /\ applied[<<1, 1>>] = -1

\* C21: a run of the migration changes bee_count only when messages has rows and
\* bee_count has none; it then gives every (chat, user) the sum of the user's stored
\* counts in the chat, rows without user left out; a second run right after it changes
\* nothing, and in no behaviour do two runs of connect add rows.
C21_MigrationOnce ==
    /\ Cardinality(migrations) <= 1
    /\ \A once \in {migrate_if_needed(messages, bee_count)} :
        /\ (DOMAIN messages = {} \/ DOMAIN bee_count # {}) => once = bee_count
        /\ (DOMAIN messages # {} /\ DOMAIN bee_count = {}) =>
            /\ DOMAIN once \subseteq Chats \X Users
            /\ \A c \in Chats, u \in Users :
                    Total(once, c, u) = LedgerSum(c, LAMBDA k : messages[k].user_id = u)
        /\ migrate_if_needed(messages, once) = once
        /\ \A k \in Keys \ DOMAIN messages :
                migrate_if_needed(Put(messages, k, [user_id |-> NoUser, bees_count |-> 1]),
                                  bee_count) = once

\* A table with a message without user of count 1 and a message of user 2 of count 0:
\* the first restart gave user 2 the total 0 and no row to the other message, an edit
\* of the message of user 2 added 1, and the second restart added nothing.
C21_Witness ==
    /\ migrations = {1}
    /\ connects = 2
    /\ DOMAIN messages = KeysOneChat
    /\ messages[<<1, 1>>] = [user_id |-> NoUser, bees_count |-> 1]
    /\ messages[<<1, 2>>] = [user_id |-> 2, bees_count |-> 1]
    /\ applied[<<1, 2>>] = 1
    /\ bee_count = Put(EmptyTable, <<1, 2>>, [username |-> Null, count |-> 1])

====
